---- MODULE Spec2Model ----
(***************************************************************************)
(* A model of the blog API's controllers: the post endpoints               *)
(* (controllers/postController: getPosts, getPost, createPost, updatePost, *)
(* deletePost, addComment, deleteComment, likePost) and the auth endpoints *)
(* (controllers/authController: register, login).                          *)
(*                                                                         *)
(* Every handler is an async function.  Its code between two awaits runs   *)
(* without interruption (one Node.js event loop), and another request may  *)
(* run at each await.  A handler is therefore modelled as one action per   *)
(* database round trip: the action holds the round trip and the            *)
(* synchronous code that follows it up to the next await.                  *)
(***************************************************************************)
EXTENDS Integers, Sequences, FiniteSets, TLC

VARIABLES
    posts,      \* the Post collection: posts[id] is the document, or NoPost once deleted
    users,      \* the User collection: a sequence of user documents
    req,        \* req[s]: the request being handled in slot s (Idle when none)
    out,        \* the response sent by the latest step (NoOut when it sent none)
    cids,       \* how many comment ids have been generated
    listed,     \* how many getPosts requests have been answered
    fetched,    \* fetched[id]: how many getPost requests on id have been answered 200
    liked,      \* liked[id]: how many likePost requests on id have been answered 200
    toggled,    \* toggled[id]: the users with an odd number of like toggles answered 200
    streak      \* streak[id]: the run of consecutive like toggles by one user on id

vars == <<posts, users, req, out, cids, listed, fetched, liked, toggled, streak>>

----------------------------------------------------------------------------
(* Bounds of the model.                                                    *)

MaxPosts == 1        \* posts ever created
MaxInFlight == 2     \* requests handled at the same time
\* When requests do not overlap:
MaxViews == 2        \* getPost is not started on a post already fetched this often
MaxLikes == 4        \* likePost is not started on a post already toggled this often
MaxComments == 3     \* comments ever added
\* When requests overlap:
MaxRaceViews == 1
MaxRaceLikes == 1
MaxRaceComments == 1

SeqLimits == [views |-> MaxViews, likes |-> MaxLikes, comments |-> MaxComments]
RaceLimits == [views |-> MaxRaceViews, likes |-> MaxRaceLikes, comments |-> MaxRaceComments]

Slots == 1..MaxInFlight
PostIds == 1..MaxPosts

(* The callers the authentication middleware lets through: req.user.id and *)
(* req.user.role.                                                          *)
Callers == {"alice", "bob", "root"}

RoleOf(u) == IF u = "root" THEN "admin" ELSE "user"

Categories == {"c1", "c2"}

NoPost == [absent |-> TRUE]
Idle == [op |-> "idle"]
NoOut == [op |-> "none"]

Exists(p) == "author" \in DOMAIN p

(* Post.findById(id): the stored document, or NoPost (null). *)
FindById(id) ==
    IF id \in 1..Len(posts) /\ Exists(posts[id]) THEN posts[id] ELSE NoPost

----------------------------------------------------------------------------
(* Array helpers, as JavaScript computes them.                             *)

(* Array.prototype.indexOf: the first index (from 1 here) holding x, or 0  *)
(* where JavaScript answers -1.                                            *)
IndexOf(seq, x) ==
    IF \E i \in 1..Len(seq) : seq[i] = x
    THEN CHOOSE i \in 1..Len(seq) : seq[i] = x /\ \A j \in 1..(i - 1) : seq[j] # x
    ELSE 0

(* splice(i) without its count argument: everything from i on is removed. *)
SpliceToEnd(seq, i) == SubSeq(seq, 1, i - 1)

(* Array.prototype.splice(i, 1): the array without its i-th element. *)
Splice(seq, i) == [k \in 1..(Len(seq) - 1) |-> IF k < i THEN seq[k] ELSE seq[k + 1]]

Range(seq) == {seq[i] : i \in 1..Len(seq)}


----------------------------------------------------------------------------
(* Responses.  A handler answers with res.status(..).json(..) or, through  *)
(* next(new ErrorResponse(message, status)), with the error handler's      *)
(* { success: false, message }.                                            *)

Reply(op, user, pid, cid, status, data) ==
    [op |-> op, user |-> user, pid |-> pid, cid |-> cid, status |-> status, data |-> data]

(* The check without the admin exemption. *)
NotOwner(owner, user) == owner # user

(* The check with || for &&: only an admin who is also the owner passes. *)
NotOwnerOrNotAdmin(owner, user) == owner # user \/ RoleOf(user) # "admin"

(* The ownership check of updatePost, deletePost and deleteComment:        *)
(*   owner.toString() !== req.user.id && req.user.role !== 'admin'         *)
(* is the condition under which the request is refused.                    *)
NotAuthorized(owner, user) == owner # user /\ RoleOf(user) # "admin"

(* document.save() of a document loaded earlier: the path the handler      *)
(* modified is written from the in-memory document; nothing is written     *)
(* when the document has been deleted since.                               *)
Save(id, path, value) ==
    IF Exists(FindById(id)) THEN [posts EXCEPT ![id][path] = value] ELSE posts

(* What save() answers.  On a document deleted since it was loaded the     *)
(* ORM either reports the missing document (the handler then answers 500)  *)
(* or does nothing, depending on its version.                              *)
SaveStatuses(id, ok) == IF Exists(FindById(id)) THEN {ok} ELSE {ok, 500}

(* Any request touching post id other than a like toggle ends the run of   *)
(* consecutive toggles recorded for it, and so does a toggle that overlaps *)
(* another request on the post.                                            *)
NoStreak == [n |-> 0]
Touch(id) == IF id \in DOMAIN streak THEN [streak EXCEPT ![id] = NoStreak] ELSE streak
Overlapped(s, id) == \E t \in Slots \ {s} : req[t] # Idle /\ req[t].pid = id

----------------------------------------------------------------------------
(* getPost: GET /api/posts/:id                                             *)

GetPostFind(s, id, lim) ==
    /\ req[s] = Idle
    /\ LET post == FindById(id) IN
       IF ~Exists(post)
       THEN /\ out' = Reply("getPost", "", id, 0, 404, "Post not found")
            /\ req' = req
       ELSE /\ fetched[id] < lim.views
            /\ req' = [req EXCEPT ![s] = [op |-> "getPost", pid |-> id, views |-> post.views]]
            /\ out' = NoOut
    /\ streak' = Touch(id)
    /\ UNCHANGED <<posts, users, cids, listed, fetched, liked, toggled>>

(* An increment done by the database on the stored value ($inc). *)
IncrementedStoredViews(read, stored) == stored + 1

(* The increment left out. *)
SameViews(read, stored) == read

(* post.views += 1 on the document as it was read: what save() then writes *)
(* to the views path, whatever is stored by then.                          *)
IncrementedViews(read, stored) == read + 1

GetPostSave(s) ==
    /\ req[s].op = "getPost"
    /\ LET id == req[s].pid
           views == IncrementedViews(req[s].views,
                                     IF Exists(FindById(id)) THEN posts[id].views ELSE 0)
       IN
       /\ posts' = Save(id, "views", views)
       /\ \E st \in SaveStatuses(id, 200) :
            /\ out' = Reply("getPost", "", id, 0, st, views)
            /\ fetched' = IF st = 200 THEN [fetched EXCEPT ![id] = @ + 1] ELSE fetched
       /\ streak' = Touch(id)
    /\ req' = [req EXCEPT ![s] = Idle]
    /\ UNCHANGED <<users, cids, listed, liked, toggled>>

----------------------------------------------------------------------------
(* likePost: POST /api/posts/:id/like                                      *)

(* The toggle without its unlike branch. *)
AlwaysPush(likes, user) == Append(likes, user)

(* The likes array after the toggle: push when indexOf is -1, else splice. *)
ToggleLike(likes, user) ==
    LET likeIndex == IndexOf(likes, user) IN
    IF likeIndex = 0 THEN Append(likes, user) ELSE Splice(likes, likeIndex)

LikePostFind(s, user, id, lim) ==
    /\ req[s] = Idle
    /\ LET post == FindById(id) IN
       IF ~Exists(post)
       THEN /\ out' = Reply("likePost", user, id, 0, 404, "Post not found")
            /\ req' = req
            /\ streak' = Touch(id)
       ELSE /\ liked[id] < lim.likes
            /\ req' = [req EXCEPT ![s] =
                         [op |-> "likePost", user |-> user, pid |-> id, likes |-> post.likes]]
            /\ out' = NoOut
            /\ streak' = IF Overlapped(s, id) THEN Touch(id) ELSE streak
    /\ UNCHANGED <<posts, users, cids, listed, fetched, liked, toggled>>

(* The likes array save() writes: the toggle applied to the array as the   *)
(* handler read it, whatever is stored by then.                            *)
ToggledLikes(read, stored, user) == ToggleLike(read, user)

(* The data with the flag telling that the caller was found. *)
LikeDataFound(likes, likeIndex) == [likes |-> Len(likes), isLiked |-> likeIndex # 0]

(* data: { likes: post.likes.length, isLiked: likeIndex === -1 }. *)
LikeData(likes, likeIndex) == [likes |-> Len(likes), isLiked |-> likeIndex = 0]

LikePostSave(s) ==
    /\ req[s].op = "likePost"
    /\ LET id == req[s].pid
           user == req[s].user
           before == FindById(id)
           likeIndex == IndexOf(req[s].likes, user)
           likes == ToggledLikes(req[s].likes,
                                 IF Exists(before) THEN before.likes ELSE <<>>, user)
       IN
       /\ posts' = Save(id, "likes", likes)
       /\ \E st \in SaveStatuses(id, 200) :
            /\ out' = Reply("likePost", user, id, 0, st, LikeData(likes, likeIndex))
            /\ liked' = IF st = 200 THEN [liked EXCEPT ![id] = @ + 1] ELSE liked
            /\ toggled' = IF st = 200
                          THEN [toggled EXCEPT ![id] =
                                  IF user \in @ THEN @ \ {user} ELSE @ \cup {user}]
                          ELSE toggled
       /\ streak' =
            IF ~Exists(before) \/ Overlapped(s, id) THEN Touch(id)
            ELSE IF streak[id].n > 0 /\ streak[id].user = user
            THEN [streak EXCEPT ![id] = [n |-> 2, user |-> user,
                                         prev |-> before.likes, orig |-> streak[id].prev]]
            ELSE [streak EXCEPT ![id] = [n |-> 1, user |-> user,
                                         prev |-> before.likes, orig |-> before.likes]]
    /\ req' = [req EXCEPT ![s] = Idle]
    /\ UNCHANGED <<users, cids, listed, fetched>>


----------------------------------------------------------------------------
(* createPost: POST /api/posts                                             *)

(* validatePost(body): the schema of validation/postValidation, which      *)
(* requires a title.  TRUE when the body passes.                           *)
validatePost(body) == body.title # <<>>

(* The new document with the author the body names, when it names one. *)
NewPostOfBodyAuthor(body, author) ==
    [author |-> IF "author" \in DOMAIN body /\ body.author # "" THEN body.author ELSE author,
     title |-> body.title, content |-> body.content,
     category |-> body.category, status |-> body.status,
     views |-> 0, comments |-> <<>>, likes |-> <<>>]

(* req.body.author = req.user.id; Post.create(req.body): the new document, *)
(* with the caller as author and the schema's defaults.                    *)
NewPost(body, author) ==
    [author |-> author, title |-> body.title, content |-> body.content,
     category |-> body.category, status |-> body.status,
     views |-> 0, comments |-> <<>>, likes |-> <<>>]

(* The reply of createPost, with the body of the request it answers. *)
CreateReply(user, body, pid, status, data) ==
    [op |-> "createPost", user |-> user, body |-> body, pid |-> pid, cid |-> 0,
     status |-> status, data |-> data]

CreatePost(user, body, maxPosts) ==
    /\ IF ~validatePost(body)
       THEN /\ out' = CreateReply(user, body, 0, 400, "validation")
            /\ posts' = posts
       ELSE IF body.category \notin Categories
       THEN /\ out' = CreateReply(user, body, 0, 404, "Category not found")
            /\ posts' = posts
       ELSE /\ Len(posts) < maxPosts
            /\ posts' = Append(posts, NewPost(body, user))
            /\ out' = CreateReply(user, body, Len(posts) + 1, 201, NewPost(body, user))
    /\ UNCHANGED <<users, req, cids, listed, fetched, liked, toggled, streak>>

----------------------------------------------------------------------------
(* updatePost: PUT /api/posts/:id                                          *)

UpdatePostFind(s, user, id, body) ==
    /\ req[s] = Idle
    /\ LET post == FindById(id) IN
       IF ~Exists(post)
       THEN /\ out' = Reply("updatePost", user, id, 0, 404, "Post not found")
            /\ req' = req
       ELSE IF NotAuthorized(post.author, user)
       THEN /\ out' = Reply("updatePost", user, id, 0, 403, "Not authorized to update this post")
            /\ req' = req
       ELSE IF ~validatePost(body)
       THEN /\ out' = Reply("updatePost", user, id, 0, 400, "validation")
            /\ req' = req
       ELSE /\ req' = [req EXCEPT ![s] =
                         [op |-> "updatePost", user |-> user, pid |-> id, body |-> body]]
            /\ out' = NoOut
    /\ streak' = Touch(id)
    /\ UNCHANGED <<posts, users, cids, listed, fetched, liked, toggled>>

(* Post.findByIdAndUpdate(id, req.body, { new: true }): the body's fields  *)
(* are set on the stored document in one database operation; the answer is *)
(* the updated document, or null when there is none.                       *)
FindByIdAndUpdate(id, body) ==
    IF Exists(FindById(id))
    THEN [posts EXCEPT ![id] = [@ EXCEPT !.title = body.title,
                                         !.content = body.content,
                                         !.category = body.category,
                                         !.status = body.status]]
    ELSE posts

UpdatePostWrite(s) ==
    /\ req[s].op = "updatePost"
    /\ LET id == req[s].pid IN
       /\ posts' = FindByIdAndUpdate(id, req[s].body)
       /\ out' = Reply("updatePost", req[s].user, id, 0, 200,
                       IF Exists(FindById(id)) THEN posts'[id] ELSE NoPost)
       /\ streak' = Touch(id)
    /\ req' = [req EXCEPT ![s] = Idle]
    /\ UNCHANGED <<users, cids, listed, fetched, liked, toggled>>

----------------------------------------------------------------------------
(* deletePost: DELETE /api/posts/:id                                       *)

DeletePostFind(s, user, id) ==
    /\ req[s] = Idle
    /\ LET post == FindById(id) IN
       IF ~Exists(post)
       THEN /\ out' = Reply("deletePost", user, id, 0, 404, "Post not found")
            /\ req' = req
       ELSE IF NotAuthorized(post.author, user)
       THEN /\ out' = Reply("deletePost", user, id, 0, 403, "Not authorized to delete this post")
            /\ req' = req
       ELSE /\ req' = [req EXCEPT ![s] = [op |-> "deletePost", user |-> user, pid |-> id]]
            /\ out' = NoOut
    /\ streak' = Touch(id)
    /\ UNCHANGED <<posts, users, cids, listed, fetched, liked, toggled>>

(* post.deleteOne(): the document with this id is removed, if still there. *)
DeleteOne(id) ==
    IF Exists(FindById(id)) THEN [posts EXCEPT ![id] = NoPost] ELSE posts

DeletePostWrite(s) ==
    /\ req[s].op = "deletePost"
    /\ LET id == req[s].pid IN
       /\ posts' = DeleteOne(id)
       /\ out' = Reply("deletePost", req[s].user, id, 0, 200, <<>>)
       /\ streak' = Touch(id)
    /\ req' = [req EXCEPT ![s] = Idle]
    /\ UNCHANGED <<users, cids, listed, fetched, liked, toggled>>

----------------------------------------------------------------------------
(* addComment: POST /api/posts/:id/comments                                *)

AddCommentFind(s, user, id, lim) ==
    /\ req[s] = Idle
    /\ LET post == FindById(id) IN
       IF ~Exists(post)
       THEN /\ out' = Reply("addComment", user, id, 0, 404, "Post not found")
            /\ req' = req
            /\ cids' = cids
       ELSE /\ cids < lim.comments
            /\ cids' = cids + 1
            /\ req' = [req EXCEPT ![s] =
                         [op |-> "addComment", user |-> user, pid |-> id,
                          comments |-> Append(post.comments,
                                              [id |-> cids + 1, author |-> user])]]
            /\ out' = NoOut
    /\ streak' = Touch(id)
    /\ UNCHANGED <<posts, users, listed, fetched, liked, toggled>>

AddCommentSave(s) ==
    /\ req[s].op = "addComment"
    /\ LET id == req[s].pid IN
       /\ posts' = Save(id, "comments", req[s].comments)
       /\ \E st \in SaveStatuses(id, 0) :
            IF st = 500
            THEN /\ out' = Reply("addComment", req[s].user, id, 0, 500, <<>>)
                 /\ req' = [req EXCEPT ![s] = Idle]
            ELSE /\ out' = NoOut
                 /\ req' = [req EXCEPT ![s] =
                              [op |-> "addCommentReply", user |-> req[s].user, pid |-> id]]
       /\ streak' = Touch(id)
    /\ UNCHANGED <<users, cids, listed, fetched, liked, toggled>>

(* The second Post.findById of addComment, whose comments are the answer;  *)
(* reading .comments of null throws, which the error handler answers 500.  *)
AddCommentReply(s) ==
    /\ req[s].op = "addCommentReply"
    /\ LET id == req[s].pid
           updatedPost == FindById(id)
       IN
       /\ out' = IF Exists(updatedPost)
                 THEN Reply("addComment", req[s].user, id, 0, 201, updatedPost.comments)
                 ELSE Reply("addComment", req[s].user, id, 0, 500, <<>>)
       /\ streak' = Touch(id)
    /\ req' = [req EXCEPT ![s] = Idle]
    /\ UNCHANGED <<posts, users, cids, listed, fetched, liked, toggled>>

----------------------------------------------------------------------------
(* deleteComment: DELETE /api/posts/:id/comments/:commentId                *)

(* post.comments.id(commentId): the index of the comment with that id, or  *)
(* 0 where the ORM answers null.                                           *)
CommentIndex(comments, cid) ==
    IF \E i \in 1..Len(comments) : comments[i].id = cid
    THEN CHOOSE i \in 1..Len(comments) : comments[i].id = cid
    ELSE 0

(* deleteComment with the comment removed and saved before the ownership   *)
(* check.                                                                  *)
DeleteCommentFindRemovingFirst(s, user, id, cid) ==
    /\ req[s] = Idle
    /\ LET post == FindById(id) IN
       IF ~Exists(post)
       THEN /\ out' = Reply("deleteComment", user, id, cid, 404, "Post not found")
            /\ req' = req
            /\ posts' = posts
       ELSE LET i == CommentIndex(post.comments, cid) IN
            IF i = 0
            THEN /\ out' = Reply("deleteComment", user, id, cid, 404, "Comment not found")
                 /\ req' = req
                 /\ posts' = posts
            ELSE IF NotAuthorized(post.comments[i].author, user)
            THEN /\ out' = Reply("deleteComment", user, id, cid, 403,
                                 "Not authorized to delete this comment")
                 /\ req' = req
                 /\ posts' = Save(id, "comments", Splice(post.comments, i))
            ELSE /\ req' = [req EXCEPT ![s] =
                              [op |-> "deleteComment", user |-> user, pid |-> id, cid |-> cid,
                               comments |-> Splice(post.comments, i)]]
                 /\ out' = NoOut
                 /\ posts' = posts
    /\ streak' = Touch(id)
    /\ UNCHANGED <<users, cids, listed, fetched, liked, toggled>>

DeleteCommentFind(s, user, id, cid) ==
    /\ req[s] = Idle
    /\ LET post == FindById(id) IN
       IF ~Exists(post)
       THEN /\ out' = Reply("deleteComment", user, id, cid, 404, "Post not found")
            /\ req' = req
       ELSE LET i == CommentIndex(post.comments, cid) IN
            IF i = 0
            THEN /\ out' = Reply("deleteComment", user, id, cid, 404, "Comment not found")
                 /\ req' = req
            ELSE IF NotAuthorized(post.comments[i].author, user)
            THEN /\ out' = Reply("deleteComment", user, id, cid, 403,
                                 "Not authorized to delete this comment")
                 /\ req' = req
            ELSE /\ req' = [req EXCEPT ![s] =
                              [op |-> "deleteComment", user |-> user, pid |-> id, cid |-> cid,
                               comments |-> Splice(post.comments, i)]]
                 /\ out' = NoOut
    /\ streak' = Touch(id)
    /\ UNCHANGED <<posts, users, cids, listed, fetched, liked, toggled>>

DeleteCommentSave(s) ==
    /\ req[s].op = "deleteComment"
    /\ LET id == req[s].pid IN
       /\ posts' = Save(id, "comments", req[s].comments)
       /\ \E st \in SaveStatuses(id, 200) :
            out' = Reply("deleteComment", req[s].user, id, req[s].cid, st, <<>>)
       /\ streak' = Touch(id)
    /\ req' = [req EXCEPT ![s] = Idle]
    /\ UNCHANGED <<users, cids, listed, fetched, liked, toggled>>

----------------------------------------------------------------------------
(* The post endpoints' requests.                                           *)

(* Titles and contents are strings, held as sequences of characters; <<>>  *)
(* is a missing title.  "cx" is the id of no category.                     *)
Body(title, content, category, status) ==
    [title |-> title, content |-> content, category |-> category, status |-> status]

Bodies ==
    { Body(<<"A", "b">>, <<"b">>, "c1", "published"),
      Body(<<"A", "b">>, <<"b">>, "c1", "draft"),
      Body(<<>>, <<"b">>, "c1", "draft"),
      Body(<<"A", "b">>, <<"b">>, "cx", "draft") }

Authors == {"alice"}

(* The author field a createPost body may carry: none, or another user. *)
BodyAuthors == {"", "bob"}

WithAuthor(body, author) ==
    [f \in DOMAIN body \cup {"author"} |-> IF f = "author" THEN author ELSE body[f]]
Likers == {"alice", "bob"}
Commenters == {"alice", "bob"}


Init ==
    /\ posts = <<>>
    /\ users = <<>>
    /\ req = [s \in Slots |-> Idle]
    /\ out = NoOut
    /\ cids = 0
    /\ listed = 0
    /\ fetched = [id \in PostIds |-> 0]
    /\ liked = [id \in PostIds |-> 0]
    /\ toggled = [id \in PostIds |-> {}]
    /\ streak = [id \in PostIds |-> NoStreak]

(* A request arrives in slot s: the handler runs up to its first write. *)
Begin(s, lim) ==
    \/ \E id \in PostIds : GetPostFind(s, id, lim)
    \/ \E u \in Likers, id \in PostIds : LikePostFind(s, u, id, lim)
    \/ \E u \in Callers, id \in PostIds, b \in Bodies : UpdatePostFind(s, u, id, b)
    \/ \E u \in Callers, id \in PostIds : DeletePostFind(s, u, id)
    \/ \E u \in Commenters, id \in PostIds : AddCommentFind(s, u, id, lim)
    \/ \E u \in Callers, id \in PostIds, c \in 1..lim.comments : DeleteCommentFind(s, u, id, c)

(* The handler in slot s resumes after an await. *)
Resume(s) ==
    \/ GetPostSave(s)
    \/ LikePostSave(s)
    \/ UpdatePostWrite(s)
    \/ DeletePostWrite(s)
    \/ AddCommentSave(s)
    \/ AddCommentReply(s)
    \/ DeleteCommentSave(s)

Create ==
    \E u \in Authors, b \in Bodies, a \in BodyAuthors :
        CreatePost(u, WithAuthor(b, a), MaxPosts)

(* Requests are handled concurrently: any idle slot may take a request     *)
(* while others wait on the database.                                      *)
Next ==
    \/ Create
    \/ \E s \in Slots : Begin(s, RaceLimits)
    \/ \E s \in Slots : Resume(s)

Spec == Init /\ [][Next]_vars

(* Requests that do not overlap: one is taken only when none is in flight. *)
AllIdle == \A s \in Slots : req[s] = Idle

NextSeq ==
    \/ AllIdle /\ Create
    \/ \E s \in Slots : AllIdle /\ Begin(s, SeqLimits)
    \/ \E s \in Slots : Resume(s)

SpecSeq == Init /\ [][NextSeq]_vars


----------------------------------------------------------------------------
(* The auth endpoints: controllers/authController.                         *)

Usernames == {"ann", "ben"}
Emails == {"a@x", "b@x"}
Passwords == {"pw1", "pw2"}

(* Request bodies; "" stands for a missing field. *)
RegisterBodies ==
    [username : Usernames \cup {""}, email : Emails, password : Passwords \cup {""}]
LoginBodies == [email : Emails \cup {""}, password : Passwords \cup {""}]
ProfileBodies == [username : Usernames, email : Emails]

(* validateRegister / validateLogin (validation/authValidation): the       *)
(* fields are required.  TRUE when the body passes.                        *)
validateRegister(body) == body.username # "" /\ body.email # "" /\ body.password # ""
validateLogin(body) == body.email # "" /\ body.password # ""

(* The User model stores a hash of the password and compares hashes        *)
(* (matchPassword).                                                        *)
Hash(password) == <<"hash", password>>
matchPassword(user, entered) == user.password = Hash(entered)

(* generateToken(id): jwt.sign({ id }, secret, { expiresIn }). *)
generateToken(id) == <<"jwt", id>>

AuthReply(op, body, status, data) ==
    [op |-> op, body |-> body, status |-> status, data |-> data]

ErrorBody(message) == [success |-> FALSE, message |-> message]

(* A success response that carries the user document as it was read. *)
AuthDataOfDocument(user) ==
    [success |-> TRUE, data |-> [token |-> generateToken(user.id), user |-> user]]

(* The data of a success response of register and login. *)
AuthData(user) ==
    [success |-> TRUE,
     data |-> [token |-> generateToken(user.id),
               user |-> [id |-> user.id, username |-> user.username,
                         email |-> user.email, role |-> user.role]]]

(* A lookup by email alone. *)
FindUsersByEmail(email, username) == {i \in 1..Len(users) : users[i].email = email}

(* User.findOne({ $or: [{ email }, { username }] }): the stored users      *)
(* matching; findOne answers one of them, or null when there is none.      *)
FindUsersByEmailOrUsername(email, username) ==
    {i \in 1..Len(users) : users[i].email = email \/ users[i].username = username}

(* The unique indexes of the User model on email and on username: TRUE     *)
(* when a document with these values, other than document self, is stored. *)
DuplicateKey(email, username, self) ==
    \E i \in 1..Len(users) :
        i # self /\ (users[i].email = email \/ users[i].username = username)

RegisterFind(s, body) ==
    /\ req[s] = Idle
    /\ IF ~validateRegister(body)
       THEN /\ out' = AuthReply("register", body, 400, ErrorBody("validation"))
            /\ req' = req
       ELSE IF FindUsersByEmailOrUsername(body.email, body.username) # {}
       THEN /\ out' = AuthReply("register", body, 400, ErrorBody("User already exists"))
            /\ req' = req
       ELSE /\ req' = [req EXCEPT ![s] = [op |-> "register", body |-> body]]
            /\ out' = NoOut
    /\ UNCHANGED <<posts, users, cids, listed, fetched, liked, toggled, streak>>

(* User.create({ username, email, password }) and the answer.  A create    *)
(* that a unique index refuses throws, and the error handler answers it.   *)
RegisterCreate(s) ==
    /\ req[s].op = "register"
    /\ LET body == req[s].body
           user == [id |-> Len(users) + 1, username |-> body.username,
                    email |-> body.email, password |-> Hash(body.password),
                    role |-> "user"]
       IN
       IF DuplicateKey(body.email, body.username, 0)
       THEN /\ users' = users
            /\ \E st \in {400, 500} :
                 out' = AuthReply("register", body, st, ErrorBody("duplicate key"))
       ELSE /\ users' = Append(users, user)
            /\ out' = AuthReply("register", body, 201, AuthData(user))
    /\ req' = [req EXCEPT ![s] = Idle]
    /\ UNCHANGED <<posts, cids, listed, fetched, liked, toggled, streak>>

(* A reply that tells an unknown email from a wrong password. *)
UserNotFound == [status |-> 404, message |-> "User not found"]

(* next(new ErrorResponse('Invalid credentials', 401)), when no user has   *)
(* the email and when the password does not match.                         *)
UnknownEmail == [status |-> 401, message |-> "Invalid credentials"]
WrongPassword == [status |-> 401, message |-> "Invalid credentials"]

Login(body) ==
    /\ IF ~validateLogin(body)
       THEN out' = AuthReply("login", body, 400, ErrorBody("validation"))
       ELSE LET found == {i \in 1..Len(users) : users[i].email = body.email} IN
            IF found = {}
            THEN out' = AuthReply("login", body, UnknownEmail.status,
                                  ErrorBody(UnknownEmail.message))
            ELSE \E i \in found :
                   IF ~matchPassword(users[i], body.password)
                   THEN out' = AuthReply("login", body, WrongPassword.status,
                                         ErrorBody(WrongPassword.message))
                   ELSE out' = AuthReply("login", body, 200, AuthData(users[i]))
    /\ UNCHANGED <<posts, users, req, cids, listed, fetched, liked, toggled, streak>>

(* updateProfile: the caller's own username and email are set; the unique  *)
(* indexes refuse values another user holds.                               *)
UpdateProfile(self, body) ==
    /\ self \in 1..Len(users)
    /\ IF DuplicateKey(body.email, body.username, self)
       THEN /\ users' = users
            /\ \E st \in {400, 500} :
                 out' = AuthReply("updateProfile", body, st, ErrorBody("duplicate key"))
       ELSE /\ users' = [users EXCEPT ![self].username = body.username,
                                      ![self].email = body.email]
            /\ out' = AuthReply("updateProfile", body, 200,
                                [id |-> self, username |-> body.username,
                                 email |-> body.email, role |-> users[self].role])
    /\ UNCHANGED <<posts, req, cids, listed, fetched, liked, toggled, streak>>

NextAuth ==
    \/ \E s \in Slots, body \in RegisterBodies : RegisterFind(s, body)
    \/ \E s \in Slots : RegisterCreate(s)
    \/ \E body \in LoginBodies : Login(body)
    \/ \E self \in 1..Len(users), body \in ProfileBodies : UpdateProfile(self, body)

SpecAuth == Init /\ [][NextAuth]_vars

----------------------------------------------------------------------------
(* getPosts: GET /api/posts                                                *)

MaxListVaried == 2   \* the first posts of a listed store are of any kind
MaxListPosts == 13   \* posts of a listed store
MaxPage == 3         \* the largest page asked for
MaxListings == 1     \* getPosts requests of a behaviour

DefaultPage == 1
DefaultLimit == 10

(* A numeric query parameter is <<>> when absent or not a number, else     *)
(* <<n>>.  parseInt(p, 10) || d is d when parseInt answers NaN or 0.       *)
ParseIntOr(p, d) == IF Len(p) = 0 \/ p[1] = 0 THEN d ELSE p[1]

Lower(c) == IF c = "A" THEN "a" ELSE IF c = "B" THEN "b" ELSE c
LowerCase(str) == [i \in 1..Len(str) |-> Lower(str[i])]

Contains(str, sub) ==
    \E i \in 0..(Len(str) - Len(sub)) : SubSeq(str, i + 1, i + Len(sub)) = sub

(* { $regex: search, $options: 'i' } for a search term of letters. *)
RegexI(str, search) == Contains(LowerCase(str), LowerCase(search))

(* A status filter that is left out when the parameter is. *)
StatusIfGiven(post, status) == status = "" \/ post.status = status

(* query.status: the parameter, or 'published' when it is absent or empty. *)
StatusMatches(post, status) ==
    post.status = (IF status # "" THEN status ELSE "published")

(* The filter getPosts builds from req.query. *)
Matches(post, q) ==
    /\ q.search # <<>> => RegexI(post.title, q.search) \/ RegexI(post.content, q.search)
    /\ q.category # "" => post.category = q.category
    /\ StatusMatches(post, q.status)

Matching(q) == {id \in 1..Len(posts) : Exists(posts[id]) /\ Matches(posts[id], q)}

(* Post.countDocuments(query). *)
CountDocuments(q) == Cardinality(Matching(q))

(* sort({ createdAt: -1 }): the ids of a set, newest (largest) first. *)
Descending(ids) ==
    SelectSeq([k \in 1..Len(posts) |-> Len(posts) + 1 - k], LAMBDA id : id \in ids)

(* .limit(limit).skip(startIndex) of a sorted result. *)
SkipLimit(seq, startIndex, limit) ==
    SubSeq(seq, startIndex + 1,
           IF startIndex + limit < Len(seq) THEN startIndex + limit ELSE Len(seq))

(* Post.find(query).sort(..).limit(limit).skip(startIndex): the documents,  *)
(* each with its id.                                                        *)
Find(q, startIndex, limit) ==
    LET ids == SkipLimit(Descending(Matching(q)), startIndex, limit)
    IN [k \in 1..Len(ids) |-> [id |-> ids[k], doc |-> posts[ids[k]]]]

(* Math.ceil(total / limit) for limit >= 1. *)
Ceil(total, limit) == (total + limit - 1) \div limit

(* hasNext with <= for <. *)
PaginationOffByOne(page, limit, total) ==
    [current |-> page, total |-> Ceil(total, limit),
     hasNext |-> page <= Ceil(total, limit), hasPrev |-> page > 1]

Pagination(page, limit, total) ==
    [current |-> page, total |-> Ceil(total, limit),
     hasNext |-> page < Ceil(total, limit), hasPrev |-> page > 1]

GetPostsCount(s, q) ==
    /\ req[s] = Idle
    /\ listed < MaxListings
    /\ req' = [req EXCEPT ![s] = [op |-> "getPosts", query |-> q, total |-> CountDocuments(q)]]
    /\ out' = NoOut
    /\ UNCHANGED <<posts, users, cids, listed, fetched, liked, toggled, streak>>

GetPostsFind(s) ==
    /\ req[s].op = "getPosts"
    /\ LET q == req[s].query
           page == ParseIntOr(q.page, DefaultPage)
           limit == ParseIntOr(q.limit, DefaultLimit)
           startIndex == (page - 1) * limit
           found == Find(q, startIndex, limit)
       IN out' = [op |-> "getPosts", query |-> q, status |-> 200,
                  count |-> Len(found), total |-> req[s].total,
                  pagination |-> Pagination(page, limit, req[s].total),
                  data |-> found]
    /\ req' = [req EXCEPT ![s] = Idle]
    /\ listed' = listed + 1
    /\ UNCHANGED <<posts, users, cids, fetched, liked, toggled, streak>>

ListBodies ==
    { Body(<<"A", "b">>, <<"b">>, "c1", "published"),
      Body(<<"b">>, <<"b">>, "c2", "published"),
      Body(<<"b">>, <<"b", "a">>, "c1", "draft") }

FillBody == Body(<<"A", "b">>, <<"b">>, "c1", "published")

Pages == {<<>>} \cup {<<n>> : n \in 1..MaxPage}
Limits == {<<>>, <<0>>, <<6>>}

Queries ==
    [page : Pages, limit : Limits, search : {<<>>, <<"a">>},
     category : {"", "c1"}, status : {"", "draft", "published"}]

(* The store the listing runs on is built by createPost: a few posts of    *)
(* any kind, then posts of one kind.                                       *)
CreateListed ==
    \E u \in Authors, b \in ListBodies :
        /\ Len(posts) < MaxListVaried \/ b = FillBody
        /\ CreatePost(u, b, MaxListPosts)

(* One listing at a time; posts may be created at its await. *)
NextList ==
    \/ CreateListed
    \/ \E s \in Slots, q \in Queries : AllIdle /\ GetPostsCount(s, q)
    \/ \E s \in Slots : GetPostsFind(s)

SpecList == Init /\ [][NextList]_vars

----------------------------------------------------------------------------
(* Properties of the post endpoints.                                       *)

NoDuplicates(seq) == \A i, j \in 1..Len(seq) : i # j => seq[i] # seq[j]

Without(seq, x) == LET Keep(y) == y # x IN SelectSeq(seq, Keep)

WithoutComment(comments, cid) == LET Keep(c) == c.id # cid IN SelectSeq(comments, Keep)

OwnerOrAdmin(owner, user) == owner = user \/ RoleOf(user) = "admin"

(* The step just taken answered a request for op with this status. *)
Answers(op, status) == out'.op = op /\ out'.status = status

(* C1: with requests that do not overlap, no post's likes array ever holds *)
(* a user twice, and a like toggle answered 200 leaves the array without   *)
(* the caller if it held the caller, and with the caller appended if not.  *)
C1_LikesHoldEachUserOnce ==
    /\ [](\A id \in PostIds : Exists(FindById(id)) => NoDuplicates(posts[id].likes))
    /\ [][Answers("likePost", 200) /\ Exists(FindById(out'.pid)) =>
            LET id == out'.pid
                user == out'.user
                before == posts[id].likes
            IN posts' = [posts EXCEPT ![id].likes =
                           IF user \in Range(before)
                           THEN Without(before, user)
                           ELSE Append(before, user)]]_vars

(* An unlike has been answered and left another user's like in place. *)
C1_Witness ==
    /\ out.op = "likePost" /\ out.status = 200 /\ ~out.data.isLiked
    /\ Exists(FindById(out.pid))
    /\ Len(posts[out.pid].likes) >= 1

(* C2: after two consecutive like toggles of one user on a post, with no   *)
(* other request on the post in between, the post is liked by the same     *)
(* users, and by as many, as before the first of the two.                  *)
C2_TwoTogglesRestore ==
    \A id \in PostIds :
        Exists(FindById(id)) /\ streak[id].n = 2 =>
            /\ Range(posts[id].likes) = Range(streak[id].orig)
            /\ Len(posts[id].likes) = Len(streak[id].orig)

(* Two toggles have restored the set of likers, in another order. *)
C2_Witness ==
    \E id \in PostIds :
        /\ Exists(FindById(id)) /\ streak[id].n = 2
        /\ posts[id].likes # streak[id].orig
        /\ Len(posts[id].likes) = 2

(* C3: with requests that do not overlap, a deleteComment on an existing   *)
(* comment of an existing post is answered 403 and changes nothing when    *)
(* the caller is neither the comment's author nor an admin, and otherwise  *)
(* is answered 200 and removes that comment alone, the other comments      *)
(* keeping their order.                                                    *)
C3_DeleteComment ==
    [][out'.op = "deleteComment" =>
         LET id == out'.pid
             cid == out'.cid
             post == FindById(id)
         IN (Exists(post) /\ \E c \in Range(post.comments) : c.id = cid) =>
              LET comment == CHOOSE c \in Range(post.comments) : c.id = cid IN
              IF OwnerOrAdmin(comment.author, out'.user)
              THEN /\ out'.status = 200
                   /\ posts' = [posts EXCEPT ![id].comments = WithoutComment(@, cid)]
              ELSE /\ out'.status = 403
                   /\ posts' = posts]_vars

(* A deleteComment has been refused after another one removed the middle   *)
(* comment of three.                                                       *)
C3_Witness ==
    /\ out.op = "deleteComment" /\ out.status = 403
    /\ Exists(FindById(out.pid))
    /\ Len(posts[out.pid].comments) = 2
    /\ posts[out.pid].comments[1].id = 1
    /\ posts[out.pid].comments[2].id = 3

(* C4: updatePost and deletePost answer 404 exactly when the post is       *)
(* absent when they look it up, and otherwise 403 exactly when the caller  *)
(* is neither the post's author nor an admin; neither answer changes the   *)
(* store, and the store is changed by these handlers only for a caller who *)
(* is the post's author or an admin.                                       *)
UpdateOrDelete == {"updatePost", "deletePost"}

C4_UpdateDeleteGuarded ==
    [][/\ out'.op \in UpdateOrDelete /\ out'.status = 404 =>
            ~Exists(FindById(out'.pid)) /\ posts' = posts
       /\ out'.op \in UpdateOrDelete /\ out'.status = 403 =>
            /\ Exists(FindById(out'.pid))
            /\ ~OwnerOrAdmin(posts[out'.pid].author, out'.user)
            /\ posts' = posts
       /\ out'.op \in UpdateOrDelete /\ out'.status = 400 =>
            /\ Exists(FindById(out'.pid))
            /\ OwnerOrAdmin(posts[out'.pid].author, out'.user)
            /\ posts' = posts
       /\ out'.op \in UpdateOrDelete =>
            \/ out'.status \in {400, 403, 404}
            \/ out'.status = 200 /\ \E s \in Slots : req[s].op = out'.op /\ req'[s] = Idle
       /\ \A s \in Slots :
            /\ req[s] = Idle /\ req'[s].op \in UpdateOrDelete =>
                 /\ Exists(FindById(req'[s].pid))
                 /\ OwnerOrAdmin(posts[req'[s].pid].author, req'[s].user)
            /\ req[s].op \in UpdateOrDelete /\ req'[s] = Idle /\ posts' # posts =>
                 /\ Exists(FindById(req[s].pid))
                 /\ OwnerOrAdmin(posts[req[s].pid].author, req[s].user)
                 /\ \A id \in DOMAIN posts : id # req[s].pid => posts'[id] = posts[id]]_vars

(* An admin who is not the author has updated a post. *)
C4_Witness ==
    /\ out.op = "updatePost" /\ out.status = 200 /\ out.user = "root"
    /\ Exists(FindById(out.pid))
    /\ posts[out.pid].author # "root"
    /\ posts[out.pid].status = "published"

(* C5: with getPost requests that do not overlap, a post's view counter is *)
(* the number of getPost requests answered 200 for it; each such answer    *)
(* raises the counter by one and changes nothing else; a getPost on an     *)
(* absent id is answered 404 and changes nothing.                          *)
C5_ViewsCountFetches ==
    /\ [](\A id \in PostIds : Exists(FindById(id)) => posts[id].views = fetched[id])
    /\ [][/\ Answers("getPost", 200) =>
               /\ Exists(FindById(out'.pid))
               /\ posts' = [posts EXCEPT ![out'.pid].views = @ + 1]
          /\ Answers("getPost", 404) => ~Exists(FindById(out'.pid)) /\ posts' = posts
          /\ out'.op = "getPost" => out'.status \in {200, 404}
          /\ \A s \in Slots : req[s] = Idle /\ req'[s].op = "getPost" =>
               Exists(FindById(req'[s].pid))]_vars

(* Two fetches in a row have been answered. *)
C5_Witness ==
    \E id \in PostIds : Exists(FindById(id)) /\ fetched[id] = 2 /\ posts[id].views = 2

(* C6: a save writes what the handler computed from the document it read,  *)
(* whatever has been stored since: getPost stores the views it read plus   *)
(* one, likePost the likes it read with the caller toggled.  A change      *)
(* stored between the read and the write is overwritten.                   *)
C6_SaveOverwrites ==
    [][\A s \in Slots :
         (req[s].op \in {"getPost", "likePost"} /\ req'[s] = Idle
            /\ Exists(FindById(req[s].pid))) =>
            /\ req[s].op = "getPost" => posts'[req[s].pid].views = req[s].views + 1
            /\ req[s].op = "likePost" =>
                 posts'[req[s].pid].likes =
                    IF req[s].user \in Range(req[s].likes)
                    THEN Without(req[s].likes, req[s].user)
                    ELSE Append(req[s].likes, req[s].user)]_vars

(* Two getPost requests have been answered 200 and the counter is 1; two   *)
(* users have each liked once and one of them is recorded.                 *)
C6_Witness ==
    \E id \in PostIds :
        /\ Exists(FindById(id))
        /\ fetched[id] = 2 /\ posts[id].views = 1
        /\ toggled[id] = {"alice", "bob"} /\ Len(posts[id].likes) = 1

(* A stored user holds the email or the username of a register body. *)
Taken(body) ==
    \E i \in 1..Len(users) :
        users[i].email = body.email \/ users[i].username = body.username

Complete(body) == \A f \in DOMAIN body : body[f] # ""

(* C7: no two stored users ever share an email or a username.  A register  *)
(* request with all fields present, made when a stored user holds its      *)
(* email or its username, is answered 400 'User already exists' and stores *)
(* nothing; that answer is given in no other case; a register request goes *)
(* on to create only when no stored user holds either; and a register step *)
(* changes the users only by appending the one new user, answered 201.     *)
C7_RegisterConflict ==
    /\ [](\A i, j \in 1..Len(users) :
            i # j => /\ users[i].email # users[j].email
                     /\ users[i].username # users[j].username)
    /\ [][/\ (out'.op = "register" /\ req' = req) =>
               /\ users' = users
               /\ out'.status = 400
               /\ (Complete(out'.body) /\ Taken(out'.body)) =>
                     out'.data = [success |-> FALSE, message |-> "User already exists"]
               /\ out'.data.message = "User already exists" => Taken(out'.body)
          /\ \A s \in Slots :
               /\ (req[s] = Idle /\ req'[s] # Idle) =>
                     /\ Complete(req'[s].body)
                     /\ ~Taken(req'[s].body)
                     /\ users' = users
               /\ (req[s] # Idle /\ req'[s] = Idle) =>
                     IF Taken(req[s].body)
                     THEN users' = users /\ out'.status # 201
                     ELSE /\ out'.status = 201
                          /\ Len(users') = Len(users) + 1
                          /\ SubSeq(users', 1, Len(users)) = users
                          /\ users'[Len(users')].email = req[s].body.email
                          /\ users'[Len(users')].username = req[s].body.username]_vars

(* A register with a fresh email and a taken username has been refused     *)
(* with 'User already exists'.                                             *)
C7_Witness ==
    /\ out.op = "register"
    /\ out.status = 400
    /\ out.data.message = "User already exists"
    /\ \E i \in 1..Len(users) : users[i].username = out.body.username
    /\ \A i \in 1..Len(users) : users[i].email # out.body.email

(* C8: a login with email and password present is answered 401 with        *)
(* { success: false, message: 'Invalid credentials' } both when no stored  *)
(* user has the email and when one has it and the password is wrong: the   *)
(* two answers are equal; a login with the right password is answered 200. *)
C8_LoginFailuresAlike ==
    [][(out'.op = "login" /\ Complete(out'.body)) =>
         LET body == out'.body
             known == \E i \in 1..Len(users) : users[i].email = body.email
             right == \E i \in 1..Len(users) :
                         /\ users[i].email = body.email
                         /\ users[i].password = <<"hash", body.password>>
             refused == /\ out'.status = 401
                        /\ out'.data = [success |-> FALSE, message |-> "Invalid credentials"]
         IN /\ ~known => refused
            /\ (known /\ ~right) => refused
            /\ right => out'.status = 200]_vars

(* A login with a registered email and a wrong password has been refused   *)
(* while another email is not registered.                                  *)
C8_Witness ==
    /\ out.op = "login"
    /\ out.status = 401
    /\ \E i \in 1..Len(users) :
          users[i].email = out.body.email /\ users[i].password # <<"hash", out.body.password>>
    /\ \E e \in Emails : \A i \in 1..Len(users) : users[i].email # e

(* The least number of pages of the given size that hold total items. *)
PagesFor(total, limit) ==
    CHOOSE n \in 0..total : n * limit >= total /\ \A m \in 0..(n - 1) : m * limit < total

Min(a, b) == IF a < b THEN a ELSE b
Max(a, b) == IF a > b THEN a ELSE b

(* C9: getPosts with page >= 1 and limit >= 1 given counts the posts       *)
(* matching the filter, returns min(limit, max(0, T - (page-1)*limit))     *)
(* items of the T posts matching when it reads them, and reports, for the  *)
(* total it counted, pagination.total = ceil(total/limit), hasNext exactly *)
(* when page < ceil(total/limit) and hasPrev exactly when page > 1.  With  *)
(* no post stored between the count and the read, T is the total.          *)
C9_Pagination ==
    [][\A s \in Slots :
         /\ (req[s] = Idle /\ req'[s] # Idle) =>
               req'[s].total = Cardinality(Matching(req'[s].query))
         /\ (req[s] # Idle /\ req'[s] = Idle
               /\ req[s].query.page # <<>> /\ req[s].query.limit # <<>>
               /\ req[s].query.limit[1] >= 1) =>
               LET page == req[s].query.page[1]
                   limit == req[s].query.limit[1]
                   total == req[s].total
                   T == Cardinality(Matching(req[s].query))
               IN /\ out'.total = total
                  /\ out'.count = Len(out'.data)
                  /\ out'.count = Min(limit, Max(0, T - (page - 1) * limit))
                  /\ out'.pagination.current = page
                  /\ out'.pagination.total = PagesFor(total, limit)
                  /\ out'.pagination.hasNext <=> page < PagesFor(total, limit)
                  /\ out'.pagination.hasPrev <=> page > 1]_vars

(* Page 3 of 13 published posts in pages of 6 has been answered: one item, *)
(* hasNext false.                                                          *)
C9_Witness ==
    /\ out.op = "getPosts"
    /\ out.query.page = <<3>> /\ out.query.limit = <<6>>
    /\ out.query.status = "" /\ out.query.search = <<>> /\ out.query.category = ""
    /\ out.total = 13
    /\ out.count = 1
    /\ out.pagination.total = 3
    /\ ~out.pagination.hasNext
    /\ out.pagination.hasPrev

(* C10: every post in the answer of getPosts has status published when the *)
(* request has no status parameter, and the status asked for when it has   *)
(* one (draft: only drafts), whatever the search, category, page and limit *)
(* and whatever is stored.                                                 *)
C10_StatusFilter ==
    out.op = "getPosts" =>
        \A k \in 1..Len(out.data) :
           /\ out.query.status = "" => out.data[k].doc.status = "published"
           /\ out.query.status = "draft" => out.data[k].doc.status = "draft"

(* A listing without a status parameter, with a search term and a          *)
(* category, has returned a post while a draft of that category that has   *)
(* the term is stored and is not in the answer.                            *)
C10_Witness ==
    /\ out.op = "getPosts"
    /\ out.query.status = "" /\ out.query.search = <<"a">> /\ out.query.category = "c1"
    /\ Len(out.data) >= 1
    /\ \E id \in 1..Len(posts) :
          /\ posts[id].status = "draft"
          /\ posts[id].category = "c1"
          /\ RegexI(posts[id].content, <<"a">>)
          /\ \A k \in 1..Len(out.data) : out.data[k].id # id

(* C11: with requests that do not overlap, a likePost on a stored post is  *)
(* answered 200 with likes the number of users in the post's likes after   *)
(* the toggle and isLiked telling whether the caller is one of them; a     *)
(* likePost on an absent post is answered 404 and stores nothing.          *)
C11_LikeAnswer ==
    [][out'.op = "likePost" =>
         IF Exists(FindById(out'.pid))
         THEN /\ out'.status = 200
              /\ Exists(posts'[out'.pid])
              /\ out'.data.likes = Cardinality(Range(posts'[out'.pid].likes))
              /\ out'.data.isLiked <=> out'.user \in Range(posts'[out'.pid].likes)
         ELSE /\ out'.status = 404
              /\ posts' = posts]_vars

(* A second user's like has been answered: two likes, isLiked true. *)
C11_Witness ==
    /\ out.op = "likePost" /\ out.status = 200
    /\ out.data.isLiked /\ out.data.likes = 2
    /\ Exists(FindById(out.pid))
    /\ Range(posts[out.pid].likes) = {"alice", "bob"}

(* C12: a createPost whose body lacks a title is answered 400, and one     *)
(* whose body has a title and names a category that is not stored is       *)
(* answered 404; neither stores a post.  A createPost answered 201 appends *)
(* one post whose author is the caller, whatever author the body names.    *)
C12_CreatePost ==
    [][out'.op = "createPost" =>
         /\ out'.body.title = <<>> => out'.status = 400
         /\ (out'.body.title # <<>> /\ out'.body.category \notin {"c1", "c2"}) =>
               out'.status = 404
         /\ out'.status \in {400, 404, 201}
         /\ out'.status \in {400, 404} => posts' = posts
         /\ out'.status = 201 =>
               /\ Len(posts') = Len(posts) + 1
               /\ SubSeq(posts', 1, Len(posts)) = posts
               /\ out'.pid = Len(posts')
               /\ posts'[out'.pid].author = out'.user]_vars

(* A post has been created from a body naming another user as author. *)
C12_Witness ==
    /\ out.op = "createPost" /\ out.status = 201
    /\ out.body.author = "bob" /\ out.user = "alice"
    /\ Exists(FindById(out.pid))
    /\ posts[out.pid].author = "alice"

(* C13: the body of every register answered 201 and of every login         *)
(* answered 200 is { success, data: { token, user } } with user holding    *)
(* id, username, email and role and nothing else: no password field, and   *)
(* no field or token that holds the password sent.                         *)
C13_NoPasswordInAnswer ==
    (out.op \in {"register", "login"} /\ out.status \in {200, 201}) =>
        /\ DOMAIN out.data = {"success", "data"}
        /\ DOMAIN out.data.data = {"token", "user"}
        /\ DOMAIN out.data.data.user = {"id", "username", "email", "role"}
        /\ \A f \in {"username", "email", "role"} : out.data.data.user[f] \notin Passwords
        /\ out.data.data.token = <<"jwt", out.data.data.user.id>>
        /\ out.data.data.user.id \in 1..Len(users)

(* A login has succeeded for a user stored with a password hash, while a   *)
(* second user is stored.                                                  *)
C13_Witness ==
    /\ out.op = "login" /\ out.status = 200
    /\ Len(users) = 2
    /\ out.data.data.user.id = 2
    /\ users[2].password = <<"hash", out.body.password>>

Mutating == {"updatePost", "deletePost", "addComment", "deleteComment", "likePost"}

(* C14: with requests overlapping, the step in which updatePost,           *)
(* deletePost, addComment, deleteComment or likePost answers 400, 403 or   *)
(* 404 is the request's only step, begun and ended with its slot idle, and *)
(* leaves every stored post as it was.                                     *)
C14_ErrorsStoreNothing ==
    [][(out'.op \in Mutating /\ out'.status \in {400, 403, 404}) =>
          /\ posts' = posts
          /\ req' = req
          /\ cids' = cids]_vars

(* An updatePost without title has been refused with 400 on a post that    *)
(* has a like and a comment.                                               *)
C14_Witness ==
    /\ out.op = "updatePost" /\ out.status = 400
    /\ Exists(FindById(out.pid))
    /\ Len(posts[out.pid].likes) = 1
    /\ Len(posts[out.pid].comments) = 1

====
